---- MODULE Spec2Model ----
(***************************************************************************)
(* RMA working-day calculator: the ConsentCalculator component             *)
(* (src/src/components/ConsentCalculator.tsx) as a state machine.          *)
(*                                                                         *)
(* Dates.  Every Date the component builds comes from new Date(iso) on a   *)
(* "YYYY-MM-DD" field value (UTC midnight of that day) or from addDays /   *)
(* setHours(0,0,0,0) applied to such a value.  A Date is modelled by its   *)
(* day number: the number of days since 1970-01-01.  This is exact for a   *)
(* browser whose UTC offset is non-negative and the same on all the dates  *)
(* involved (local day = UTC day, and the time of day, either the UTC      *)
(* offset or 00:00 after setHours, never decides a comparison between two  *)
(* different days).  The blank field value '' is NoDate.                   *)
(***************************************************************************)
EXTENDS Integers, Sequences, FiniteSets, TLC

(***************************************************************************)
(* Bounds of the model                                                     *)
(***************************************************************************)
\* number of consecutive calendar days the drawn date fields range over
NumDays == 4
\* most hold periods on a drawn form
MaxHolds == 2
\* most extension rows on a drawn form
MaxExtensions == 2
\* most hold periods added to the form in the interactive specification
MaxFormHolds == 1
\* most extension rows added to the form in the interactive specification
MaxFormExtensions == 1
\* most intervals in an array passed to mergeIntervals on its own
MaxIntervals == 3

\* '' of a date field (useState<string>(''))
NoDate == 0

\* Sunday 2024-01-07 as a day number (2024-01-01 is day 19723)
FirstDay == 19723 + 6
Days == FirstDay .. (FirstDay + NumDays - 1)
DateInputs == Days \cup {NoDate}

(***************************************************************************)
(* Calendar: Date.getDay / getMonth / getDate / getFullYear, date-fns      *)
(***************************************************************************)
\* Date.prototype.getDay: 0 = Sunday .. 6 = Saturday (1970-01-01 is a Thursday)
GetDay(date) == (date + 4) % 7

\* variant of IsWeekend: only Sunday is a weekend day
IsWeekend_SundayOnly(date) == GetDay(date) = 0

\* date-fns isWeekend
IsWeekend(date) == GetDay(date) = 0 \/ GetDay(date) = 6

\* proleptic Gregorian calendar fields of a day number
Civil(date) ==
  LET z == date + 719468
      era == z \div 146097
      doe == z - era * 146097
      yoe == (doe - doe \div 1460 + doe \div 36524 - doe \div 146096) \div 365
      doy == doe - (365 * yoe + yoe \div 4 - yoe \div 100)
      mp == (5 * doy + 2) \div 153
      d == doy - (153 * mp + 2) \div 5 + 1
      m == IF mp < 10 THEN mp + 3 ELSE mp - 9
      y == yoe + era * 400 + (IF m <= 2 THEN 1 ELSE 0)
  IN [year |-> y, month |-> m, day |-> d]

\* Date.prototype.getMonth: 0-based
GetMonth(date) == Civil(date).month - 1

\* Date.prototype.getDate
GetDate(date) == Civil(date).day

\* Date.prototype.getFullYear
GetFullYear(date) == Civil(date).year

\* date-fns addDays
AddDays(date, n) == date + n

\* milliseconds in a day: the unit of Date.prototype.getTime
MsPerDay == 86400000

DayNames == <<"Sunday", "Monday", "Tuesday", "Wednesday", "Thursday", "Friday", "Saturday">>
MonthNames == <<"Jan", "Feb", "Mar", "Apr", "May", "Jun", "Jul", "Aug", "Sep", "Oct", "Nov", "Dec">>

\* date-fns format(date, "eeee, d MMM yyyy")
FormatLong(date) ==
  <<DayNames[GetDay(date) + 1], GetDate(date), MonthNames[GetMonth(date) + 1], GetFullYear(date)>>

\* Date.prototype.toISOString, date part: <<yyyy, mm, dd>>
ToISOString(date) == <<GetFullYear(date), GetMonth(date) + 1, GetDate(date)>>

\* new Date("yyyy-mm-dd") on the value of a date input: the day number of the
\* calendar date
NewDate(year, month, day) ==
  LET y == IF month <= 2 THEN year - 1 ELSE year
      era == y \div 400
      yoe == y - era * 400
      mp == IF month > 2 THEN month - 3 ELSE month + 9
      doy == (153 * mp + 2) \div 5 + day - 1
      doe == yoe * 365 + yoe \div 4 - yoe \div 100 + doy
  IN era * 146097 + doe - 719468

(***************************************************************************)
(* Component state                                                         *)
(***************************************************************************)
VARIABLES
  startDate,          \* lodgement (trigger) date field
  endDate,            \* decision issue date field
  holdPeriods,        \* sequence of [type, start, end]
  extensions,         \* sequence of [days], days a string of characters
  nonWorkingDays,     \* the loaded fixed non-working dates
  result,             \* NoResult or <<CalculationResult>>
  validationError,    \* NoError or the message
  applicationType,    \* key of CONSENT_TYPES
  nonWorkingDayNote,  \* NoNote or the note
  loadState,          \* progress of loadNonWorkingDays: pending, loaded, failed
  mergeInput,         \* the array passed to a call of mergeIntervals
  mergeOutput,        \* NoCall or <<the array that call returned>>
  clampArgs,          \* the arguments of a call of clampIntervalToRange
  clampReturn,        \* NoCall or <<what that call returned>>
  countArgs,          \* the arguments of a call of calculateWorkingDays
  countReturn,        \* NoCall or <<the counters that call returned>>
  loopDate,           \* adjustedStart while step 3 of calculateResult runs
  loopState           \* position in step 3: idle, running, done

vars == <<startDate, endDate, holdPeriods, extensions, nonWorkingDays, result,
          validationError, applicationType, nonWorkingDayNote, loadState,
          mergeInput, mergeOutput, clampArgs, clampReturn, countArgs, countReturn,
          loopDate, loopState>>

\* argument and return value of the mergeIntervals call followed on its own
mergeVars == <<mergeInput, mergeOutput>>

\* arguments and return value of the clampIntervalToRange call followed on its own
clampVars == <<clampArgs, clampReturn>>

\* arguments and return value of the calculateWorkingDays call followed on its own
countVars == <<countArgs, countReturn>>

\* the Day 0 loop followed iteration by iteration
loopVars == <<loopDate, loopState>>

\* everything that belongs to a call followed on its own
callVars == <<mergeVars, clampVars, countVars, loopVars>>

inputVars == <<startDate, endDate, holdPeriods, extensions, applicationType>>

\* null of useState<CalculationResult | null>
NoResult == <<>>
\* null of useState<string | null>
NoError == <<>>
\* "" of the nonWorkingDayNote state
NoNote == <<>>
\* the function followed on its own has not returned
NoCall == <<>>

\* neither clampIntervalToRange nor calculateWorkingDays is followed on its
\* own, and step 3 is not followed iteration by iteration
NoOtherCall ==
  /\ clampArgs = <<>>
  /\ clampReturn = NoCall
  /\ countArgs = <<>>
  /\ countReturn = NoCall
  /\ loopDate = NoDate
  /\ loopState = "idle"

\* keys of HOLD_PERIOD_TYPES
HOLD_PERIOD_TYPES ==
  {"s88E", "s88H", "s91", "s91A", "s91D", "s92(1)", "s92(2)", "other"}

\* CONSENT_TYPES[key].baseDays
CONSENT_TYPES ==
  [standard |-> 20, fastTrack |-> 10, notifiednohearing |-> 60,
   limitedNotified |-> 100, publiclyNotified |-> 130]

(***************************************************************************)
(* Working-day classification                                              *)
(***************************************************************************)
\* isWorkingDay: not a weekend and not equal to any loaded non-working date
IsWorkingDay(date) ==
  IF IsWeekend(date) THEN FALSE
  ELSE ~(\E holiday \in nonWorkingDays : holiday = date)

\* isInChristmasShutdown: 20 Dec .. 10 Jan (used for the Day 0 note only)
IsInChristmasShutdown(date) ==
  LET month == GetMonth(date)
      day == GetDate(date)
  IN (month = 11 /\ day >= 20) \/ (month = 0 /\ day <= 10)

RECURSIVE NonWorkingLoop(_, _)
\* the while loop of isPeriodEntirelyNonWorking
NonWorkingLoop(current, end) ==
  IF current <= end
  THEN IF IsWorkingDay(current) THEN FALSE
       ELSE NonWorkingLoop(AddDays(current, 1), end)
  ELSE TRUE

\* variant of IsPeriodEntirelyNonWorking: no period is entirely non-working
IsPeriodEntirelyNonWorking_Never(start, end) == FALSE

\* isPeriodEntirelyNonWorking
IsPeriodEntirelyNonWorking(start, end) ==
  IF start = end /\ ~IsWorkingDay(start) THEN TRUE
  ELSE NonWorkingLoop(start, end)

(***************************************************************************)
(* Interval arithmetic                                                     *)
(***************************************************************************)
RECURSIVE WorkingDaysLoop(_, _, _, _, _)
\* the while loop of calculateWorkingDays; acc holds the three counters
WorkingDaysLoop(current, start, end, skipStartDay, acc) ==
  IF current <= end
  THEN IF skipStartDay /\ current = start
       THEN WorkingDaysLoop(AddDays(current, 1), start, end, skipStartDay, acc)
       ELSE IF IsWeekend(current)
       THEN WorkingDaysLoop(AddDays(current, 1), start, end, skipStartDay,
                            [acc EXCEPT !.weekends = @ + 1])
       ELSE IF ~IsWorkingDay(current)
       THEN WorkingDaysLoop(AddDays(current, 1), start, end, skipStartDay,
                            [acc EXCEPT !.holidays = @ + 1])
       ELSE WorkingDaysLoop(AddDays(current, 1), start, end, skipStartDay,
                            [acc EXCEPT !.workingDays = @ + 1])
  ELSE acc

\* variant of CalculateWorkingDays: weekend days are left out of the counters
CalculateWorkingDays_WeekdaysOnly(start, end, skipStartDay) ==
  LET counted == {date \in start..end :
                    ~IsWeekend(date) /\ ~(skipStartDay /\ date = start)}
  IN [workingDays |-> Cardinality({date \in counted : IsWorkingDay(date)}),
      weekends |-> 0,
      holidays |-> Cardinality({date \in counted : ~IsWorkingDay(date)})]

\* variant of CalculateWorkingDays: the start day is never skipped
CalculateWorkingDays_CountStart(start, end, skipStartDay) ==
  WorkingDaysLoop(start, start, end, FALSE,
                  [workingDays |-> 0, weekends |-> 0, holidays |-> 0])

\* calculateWorkingDays(start, end, skipStartDay)
CalculateWorkingDays(start, end, skipStartDay) ==
  WorkingDaysLoop(start, start, end, skipStartDay,
                  [workingDays |-> 0, weekends |-> 0, holidays |-> 0])

RECURSIVE CalendarStatsLoop(_, _, _)
\* the while loop of calculateCalendarStatsForDisplay
CalendarStatsLoop(current, end, acc) ==
  IF current <= end
  THEN IF IsWeekend(current)
       THEN CalendarStatsLoop(AddDays(current, 1), end, [acc EXCEPT !.weekendDays = @ + 1])
       ELSE IF ~IsWorkingDay(current)
       THEN CalendarStatsLoop(AddDays(current, 1), end, [acc EXCEPT !.holidayDays = @ + 1])
       ELSE CalendarStatsLoop(AddDays(current, 1), end, acc)
  ELSE acc

\* variant of DifferenceInDays: one day less
DifferenceInDays_Exclusive(end, start) == end - start - 1

\* date-fns differenceInDays(end, start) for end >= start
DifferenceInDays(end, start) == end - start

\* variant of CalculateCalendarStatsForDisplay: the last day is not counted
\* in the total
CalculateCalendarStatsForDisplay_OpenEnd(start, end) ==
  IF end < start
  THEN [totalCalendarDays |-> 0, weekendDays |-> 0, holidayDays |-> 0]
  ELSE CalendarStatsLoop(start, end,
         [totalCalendarDays |-> DifferenceInDays(end, start),
          weekendDays |-> 0, holidayDays |-> 0])

\* calculateCalendarStatsForDisplay(start, end)
CalculateCalendarStatsForDisplay(start, end) ==
  IF end < start
  THEN [totalCalendarDays |-> 0, weekendDays |-> 0, holidayDays |-> 0]
  ELSE CalendarStatsLoop(start, end,
         [totalCalendarDays |-> DifferenceInDays(end, start) + 1,
          weekendDays |-> 0, holidayDays |-> 0])

Max(a, b) == IF a >= b THEN a ELSE b
Min(a, b) == IF a <= b THEN a ELSE b

RECURSIVE InsertByStart(_, _, _)
\* position i onward of sorted: x goes in front of the first element that
\* starts later than x (equal starts keep their order: Array.sort is stable)
InsertByStart(x, sorted, i) ==
  IF i > Len(sorted) THEN Append(sorted, x)
  ELSE IF sorted[i].start - x.start > 0
  THEN SubSeq(sorted, 1, i - 1) \o <<x>> \o SubSeq(sorted, i, Len(sorted))
  ELSE InsertByStart(x, sorted, i + 1)

RECURSIVE SortByStart(_, _, _)
\* intervals.sort((a, b) => a.start.getTime() - b.start.getTime())
SortByStart(intervals, i, sorted) ==
  IF i > Len(intervals) THEN sorted
  ELSE SortByStart(intervals, i + 1, InsertByStart(intervals[i], sorted, 1))

\* variant of StartsWithinOneMs: nothing is merged
StartsWithinOneMs_Never(next, current) == FALSE

\* next.start.getTime() <= current.end.getTime() + 1, getTime() = day * MsPerDay:
\* written on the difference of the two day numbers to stay within 32 bits
StartsWithinOneMs(next, current) ==
  (next.start - current.end) * MsPerDay <= 1

RECURSIVE MergeLoop(_, _, _, _)
\* the for loop of mergeIntervals and the final push
MergeLoop(intervals, i, current, merged) ==
  IF i > Len(intervals) THEN Append(merged, current)
  ELSE LET next == intervals[i] IN
       IF StartsWithinOneMs(next, current)
       THEN MergeLoop(intervals, i + 1,
                      [current EXCEPT !.end = Max(current.end, next.end)], merged)
       ELSE MergeLoop(intervals, i + 1, next, Append(merged, current))

\* variant of MergeIntervals: only the interval that starts first is returned
MergeIntervals_FirstOnly(intervals) ==
  IF Len(intervals) = 0 THEN <<>>
  ELSE <<SortByStart(intervals, 1, <<>>)[1]>>

\* variant of MergeIntervals: the intervals are returned as they are
MergeIntervals_Unmerged(intervals) == intervals

\* mergeIntervals
MergeIntervals(intervals) ==
  IF Len(intervals) = 0 THEN <<>>
  ELSE LET sorted == SortByStart(intervals, 1, <<>>)
       IN MergeLoop(sorted, 2, sorted[1], <<>>)

RECURSIVE MergeLoopInPlace(_, _, _)
\* the array passed to mergeIntervals as the for loop leaves it: sorted in
\* place, and current.end = ... written into the element current refers to
\* (the element at position c)
MergeLoopInPlace(intervals, i, c) ==
  IF i > Len(intervals) THEN intervals
  ELSE IF StartsWithinOneMs(intervals[i], intervals[c])
  THEN MergeLoopInPlace(
         [intervals EXCEPT ![c].end = Max(intervals[c].end, intervals[i].end)], i + 1, c)
  ELSE MergeLoopInPlace(intervals, i + 1, i)

\* the argument array after mergeIntervals has returned
IntervalsAfterMerge(intervals) ==
  IF Len(intervals) = 0 THEN <<>>
  ELSE MergeLoopInPlace(SortByStart(intervals, 1, <<>>), 2, 1)

\* variant of ClampIntervalToRange: an overlapping interval is returned as it is
ClampIntervalToRange_Unclamped(holdStart, holdEnd, mainStart, mainEnd) ==
  IF holdEnd < mainStart \/ holdStart > mainEnd THEN <<>>
  ELSE <<[start |-> holdStart, end |-> holdEnd]>>

\* clampIntervalToRange: <<>> is null, <<interval>> the clamped interval
ClampIntervalToRange(holdStart, holdEnd, mainStart, mainEnd) ==
  IF holdEnd < mainStart \/ holdStart > mainEnd THEN <<>>
  ELSE LET clampedStart == Max(holdStart, mainStart)
           clampedEnd == Min(holdEnd, mainEnd)
       IN IF clampedStart > clampedEnd THEN <<>>
          ELSE <<[start |-> clampedStart, end |-> clampedEnd]>>

(***************************************************************************)
(* parseInt(ext.days, 10) on the value of the <input type="number">, a     *)
(* string given as the sequence of its characters                          *)
(***************************************************************************)
DigitChars == <<"0", "1", "2", "3", "4", "5", "6", "7", "8", "9">>
IsDigit(c) == \E k \in 1..10 : DigitChars[k] = c
DigitValue(c) == (CHOOSE k \in 1..10 : DigitChars[k] = c) - 1

RECURSIVE ParseDigits(_, _, _)
\* value of the longest run of digits of str from position i on
ParseDigits(str, i, acc) ==
  IF i <= Len(str) /\ IsDigit(str[i])
  THEN ParseDigits(str, i + 1, acc * 10 + DigitValue(str[i]))
  ELSE acc

\* parseInt(str, 10): optional sign, then digits up to the first other
\* character; NaN when no digit follows the sign
ParseInt(str) ==
  LET signed == Len(str) >= 1 /\ (str[1] = "-" \/ str[1] = "+")
      first == IF signed THEN 2 ELSE 1
      sign == IF signed /\ str[1] = "-" THEN 0 - 1 ELSE 1
  IN IF first <= Len(str) /\ IsDigit(str[first])
     THEN [isNaN |-> FALSE, value |-> sign * ParseDigits(str, first, 0)]
     ELSE [isNaN |-> TRUE, value |-> 0]

RECURSIVE SumExtensions(_, _)
\* extensions.reduce((sum, ext) => sum + (isNaN(parsed) ? 0 : parsed), 0)
SumExtensions(i, sum) ==
  IF i > Len(extensions) THEN sum
  ELSE LET parsed == ParseInt(extensions[i].days)
       IN SumExtensions(i + 1, sum + (IF parsed.isNaN THEN 0 ELSE parsed.value))

(***************************************************************************)
(* calculateResult                                                         *)
(***************************************************************************)
\* variant of ValidateHoldPeriods: any range error of any period is reported
\* before any inverted period
ValidateHoldPeriods_RangeFirst(i) ==
  LET both(j) == holdPeriods[j].start # NoDate /\ holdPeriods[j].end # NoDate
      outside(j) == both(j) /\ (holdPeriods[j].start < startDate
                                \/ holdPeriods[j].end > endDate)
      inverted(j) == both(j) /\ holdPeriods[j].start > holdPeriods[j].end
      rest == i..Len(holdPeriods)
  IN IF \E j \in rest : outside(j)
     THEN LET j == CHOOSE j \in rest : outside(j) /\ \A k \in rest : outside(k) => j <= k
          IN IF holdPeriods[j].start < startDate
             THEN <<"Excluded period start date is before the lodgement date.", holdPeriods[j].type>>
             ELSE <<"Excluded period end date is after the decision date.", holdPeriods[j].type>>
     ELSE IF \E j \in rest : inverted(j)
     THEN LET j == CHOOSE j \in rest : inverted(j) /\ \A k \in rest : inverted(k) => j <= k
          IN <<"Excluded period start date cannot be after the end date.", holdPeriods[j].type>>
     ELSE NoError

RECURSIVE ValidateHoldPeriods(_)
\* for (const p of holdPeriods): the first failing check of the first
\* failing period, in list order
ValidateHoldPeriods(i) ==
  IF i > Len(holdPeriods) THEN NoError
  ELSE LET p == holdPeriods[i] IN
       IF p.start # NoDate /\ p.end # NoDate
       THEN IF p.start < startDate
            THEN <<"Excluded period start date is before the lodgement date.", p.type>>
            ELSE IF p.end > endDate
            THEN <<"Excluded period end date is after the decision date.", p.type>>
            ELSE IF p.start > p.end
            THEN <<"Excluded period start date cannot be after the end date.", p.type>>
            ELSE ValidateHoldPeriods(i + 1)
       ELSE ValidateHoldPeriods(i + 1)

\* variant of Validate: a decision on the lodgement date itself is rejected
Validate_RejectSameDay ==
  IF startDate = NoDate /\ endDate = NoDate
  THEN <<"Please enter both lodgement date and decision issue date">>
  ELSE IF startDate = NoDate
  THEN <<"Please enter a lodgement date">>
  ELSE IF endDate = NoDate
  THEN <<"Please enter a decision issue date">>
  ELSE IF endDate <= startDate
  THEN <<"Decision issue date must be after lodgement date">>
  ELSE ValidateHoldPeriods(1)

\* the validation part of calculateResult: the message set, or NoError
Validate ==
  IF startDate = NoDate /\ endDate = NoDate
  THEN <<"Please enter both lodgement date and decision issue date">>
  ELSE IF startDate = NoDate
  THEN <<"Please enter a lodgement date">>
  ELSE IF endDate = NoDate
  THEN <<"Please enter a decision issue date">>
  ELSE IF endDate < startDate
  THEN <<"Decision issue date must be after lodgement date">>
  ELSE ValidateHoldPeriods(1)

\* Step 2: the result set when the whole period is non-working
ShortCircuitResult ==
  [totalDays |-> 0,
   holdDays |-> 0,
   extensionDays |-> 0,
   finalDays |-> 0,
   maxDays |-> CONSENT_TYPES[applicationType],
   isOvertime |-> FALSE,
   details |-> [weekends |-> 0, holidays |-> 0, holdPeriodDetails |-> <<>>],
   calendarStats |-> [totalCalendarDays |-> 0, weekendDays |-> 0, holidayDays |-> 0],
   rawHoldDays |-> 0,
   wasExcludedDaysClamped |-> FALSE,
   excludedDaysSummary |-> 0]

\* the note set in step 2
AllNonWorkingNote ==
  <<"Note: This application was lodged and its decision issued within a non-working day period. No processing days will be counted.">>

\* variant of AdjustStart: a non-working lodgement date moves on by one day only
AdjustStart_NextDay(adjustedStart) ==
  IF ~IsWorkingDay(adjustedStart) THEN AddDays(adjustedStart, 1) ELSE adjustedStart

RECURSIVE AdjustStart(_)
\* Step 3: while (!isWorkingDay(adjustedStart)) adjustedStart = addDays(adjustedStart, 1)
AdjustStart(adjustedStart) ==
  IF ~IsWorkingDay(adjustedStart) THEN AdjustStart(AddDays(adjustedStart, 1))
  ELSE adjustedStart

\* variant of Day0Note: the weekend test comes before the 20 Dec - 10 Jan test
Day0Note_WeekendFirst(originalStart, adjustedStart) ==
  IF ~IsWorkingDay(originalStart)
  THEN <<"Note: You have input that the application was lodged on",
         FormatLong(originalStart),
         IF IsWeekend(originalStart)
         THEN "As this falls on a weekend, the statutory 'Day 0' will be"
         ELSE IF IsInChristmasShutdown(originalStart)
         THEN "As this falls within the non-working day period between 20 December and 10 January (inclusive), the statutory 'Day 0' will be"
         ELSE "As this is a public holiday, the statutory 'Day 0' will be",
         FormatLong(adjustedStart)>>
  ELSE NoNote

\* Steps 1 and 3: the Day 0 note, NoNote when the lodgement date is a working day
Day0Note(originalStart, adjustedStart) ==
  IF ~IsWorkingDay(originalStart)
  THEN <<"Note: You have input that the application was lodged on",
         FormatLong(originalStart),
         IF IsInChristmasShutdown(originalStart)
         THEN "As this falls within the non-working day period between 20 December and 10 January (inclusive), the statutory 'Day 0' will be"
         ELSE IF IsWeekend(originalStart)
         THEN "As this falls on a weekend, the statutory 'Day 0' will be"
         ELSE "As this is a public holiday, the statutory 'Day 0' will be",
         FormatLong(adjustedStart)>>
  ELSE NoNote

\* variant of HoldIntervals: the hold periods are clamped to the range that
\* starts the day after Day 0
HoldIntervals_AfterDay0(adjustedStart, mainEnd) ==
  LET both == SelectSeq(holdPeriods, LAMBDA p : p.start # NoDate /\ p.end # NoDate)
      clamped == [i \in 1..Len(both) |->
                    [type |-> both[i].type,
                     interval |-> ClampIntervalToRange(both[i].start, both[i].end,
                                                       AddDays(adjustedStart, 1), mainEnd)]]
      kept == SelectSeq(clamped, LAMBDA obj : obj.interval # <<>>)
  IN [i \in 1..Len(kept) |-> [type |-> kept[i].type, interval |-> kept[i].interval[1]]]

\* holdPeriods.filter(p => p.start && p.end).map(new Date).filter(!isNaN).map(clamp)
\* .filter(interval !== null): the field values of a date input always parse
HoldIntervals(adjustedStart, mainEnd) ==
  LET both == SelectSeq(holdPeriods, LAMBDA p : p.start # NoDate /\ p.end # NoDate)
      clamped == [i \in 1..Len(both) |->
                    [type |-> both[i].type,
                     interval |-> ClampIntervalToRange(both[i].start, both[i].end,
                                                       adjustedStart, mainEnd)]]
      kept == SelectSeq(clamped, LAMBDA obj : obj.interval # <<>>)
  IN [i \in 1..Len(kept) |-> [type |-> kept[i].type, interval |-> kept[i].interval[1]]]

\* variant of HoldPeriodDetails: the breakdown is read from the interval
\* objects after mergeIntervals has sorted them and extended their ends
HoldPeriodDetails_AfterMerge(holdIntervals) ==
  LET tagged == [i \in 1..Len(holdIntervals) |->
                   [start |-> holdIntervals[i].interval.start,
                    end |-> holdIntervals[i].interval.end,
                    pos |-> i]]
      after == IntervalsAfterMerge(tagged)
      own(i) == CHOOSE k \in 1..Len(after) : after[k].pos = i
  IN [i \in 1..Len(holdIntervals) |->
        [type |-> holdIntervals[i].type,
         days |-> CalculateWorkingDays(after[own(i)].start, after[own(i)].end, FALSE).workingDays,
         start |-> ToISOString(after[own(i)].start),
         end |-> ToISOString(after[own(i)].end)]]

\* the per-period breakdown, computed before the merge
HoldPeriodDetails(holdIntervals) ==
  [i \in 1..Len(holdIntervals) |->
     [type |-> holdIntervals[i].type,
      days |-> CalculateWorkingDays(holdIntervals[i].interval.start,
                                    holdIntervals[i].interval.end, FALSE).workingDays,
      start |-> ToISOString(holdIntervals[i].interval.start),
      end |-> ToISOString(holdIntervals[i].interval.end)]]

\* variant of SumMergedWorkingDays: every calendar day of the merged
\* intervals from position i on is counted
SumMergedWorkingDays_CalendarDays(merged, i, holdDaysRaw) ==
  holdDaysRaw
  + Cardinality(UNION {merged[k].start..merged[k].end : k \in i..Len(merged)})

RECURSIVE SumMergedWorkingDays(_, _, _)
\* merged.forEach(({start, end}) => holdDaysRaw += workingDays)
SumMergedWorkingDays(merged, i, holdDaysRaw) ==
  IF i > Len(merged) THEN holdDaysRaw
  ELSE SumMergedWorkingDays(merged, i + 1,
         holdDaysRaw + CalculateWorkingDays(merged[i].start, merged[i].end, FALSE).workingDays)

\* variant of HoldDaysClamped: one day more than the raw total
HoldDaysClamped_OneMore(holdDaysRaw, totalDaysRaw) == holdDaysRaw + 1

\* variant of HoldDaysClamped: the raw total is not capped
HoldDaysClamped_NoCap(holdDaysRaw, totalDaysRaw) == holdDaysRaw

\* variant of HoldDaysClamped: the elapsed total is always taken
HoldDaysClamped_Elapsed(holdDaysRaw, totalDaysRaw) == totalDaysRaw

\* the clamped hold total: Math.min(holdDaysRaw, totalDaysRaw)
HoldDaysClamped(holdDaysRaw, totalDaysRaw) == Min(holdDaysRaw, totalDaysRaw)

\* variant of IsOvertime: reaching the limit already counts as overtime
IsOvertime_AtLimit(finalDays, maxDays) == finalDays >= maxDays

\* isOvertime = finalDays > maxDays
IsOvertime(finalDays, maxDays) == finalDays > maxDays

\* Steps 4 onward: the result set when the short-circuit is not taken
FinalCalc(adjustedStart, mainEnd) ==
  LET counted == CalculateWorkingDays(adjustedStart, mainEnd, TRUE)
      totalDaysRaw == counted.workingDays
      weekends == counted.weekends
      holidays == counted.holidays
      calendarStart == AddDays(adjustedStart, 1)
      calendarStats ==
        IF mainEnd < calendarStart
        THEN [totalCalendarDays |-> 0, weekendDays |-> 0, holidayDays |-> 0]
        ELSE CalculateCalendarStatsForDisplay(calendarStart, mainEnd)
      holdIntervals == HoldIntervals(adjustedStart, mainEnd)
      holdPeriodDetails == HoldPeriodDetails(holdIntervals)
      merged == MergeIntervals([i \in 1..Len(holdIntervals) |-> holdIntervals[i].interval])
      holdDaysRaw == SumMergedWorkingDays(merged, 1, 0)
      extensionDays == SumExtensions(1, 0)
      baseDays == CONSENT_TYPES[applicationType]
      maxDays == baseDays + extensionDays
      holdDaysClamped == HoldDaysClamped(holdDaysRaw, totalDaysRaw)
      clamped1 == holdDaysClamped < holdDaysRaw
      finalDays0 == totalDaysRaw - holdDaysClamped
      finalDays == IF finalDays0 < 0 THEN 0 ELSE finalDays0
      clamped2 == finalDays0 < 0
      rawExcludedDaysSummary == weekends + holidays + holdDaysRaw
      excludedDaysSummary ==
        IF calendarStats.totalCalendarDays = 0 THEN 0
        ELSE IF rawExcludedDaysSummary > calendarStats.totalCalendarDays
        THEN calendarStats.totalCalendarDays
        ELSE rawExcludedDaysSummary
      clamped3 == calendarStats.totalCalendarDays # 0
                  /\ rawExcludedDaysSummary > calendarStats.totalCalendarDays
  IN [totalDays |-> totalDaysRaw,
      holdDays |-> holdDaysClamped,
      extensionDays |-> extensionDays,
      finalDays |-> finalDays,
      maxDays |-> maxDays,
      isOvertime |-> IsOvertime(finalDays, maxDays),
      details |-> [weekends |-> weekends, holidays |-> holidays,
                   holdPeriodDetails |-> holdPeriodDetails],
      calendarStats |-> calendarStats,
      rawHoldDays |-> holdDaysRaw,
      wasExcludedDaysClamped |-> clamped1 \/ clamped2 \/ clamped3,
      excludedDaysSummary |-> excludedDaysSummary]

\* variant of TakesShortCircuit: only the lodgement date is tested
TakesShortCircuit_TriggerOnly(originalStart, mainEnd) == ~IsWorkingDay(originalStart)

\* Step 2 test: !isWorkingDay(originalStart) && isPeriodEntirelyNonWorking(...)
TakesShortCircuit(originalStart, mainEnd) ==
  ~IsWorkingDay(originalStart) /\ IsPeriodEntirelyNonWorking(originalStart, mainEnd)

\* calculateResult: the Calculate button
CalculateResult ==
  /\ IF Validate # NoError
     THEN /\ validationError' = Validate
          /\ nonWorkingDayNote' = NoNote
          /\ UNCHANGED result
     ELSE IF TakesShortCircuit(startDate, endDate)
     THEN /\ validationError' = NoError
          /\ nonWorkingDayNote' = AllNonWorkingNote
          /\ result' = <<ShortCircuitResult>>
     ELSE LET adjustedStart == AdjustStart(startDate) IN
          /\ validationError' = NoError
          /\ nonWorkingDayNote' = Day0Note(startDate, adjustedStart)
          /\ result' = <<FinalCalc(adjustedStart, endDate)>>
  /\ UNCHANGED <<inputVars, nonWorkingDays, loadState, callVars>>

(***************************************************************************)
(* Inputs the user and the non-working-day source can supply               *)
(***************************************************************************)
\* dates typed into the form in the interactive specification: Sunday
\* 2024-01-07 and Monday 2024-01-08, or a field cleared again
FormDates == {FirstDay, FirstDay + 1, NoDate}

\* hold type chosen in the select (a new period starts as s92(1))
FormHoldTypes == {"s88E"}

\* value typed into an extension input (a new row starts blank)
FormExtensionValues == {<<"5">>}

\* application type chosen in the select (the form starts as standard)
FormApplicationTypes == {"fastTrack"}

\* dates of the 20 Dec - 10 Jan period that /non-working-days.csv lists and
\* that fall in the window: Monday 2024-01-08 and Tuesday 2024-01-09
CsvDates == {FirstDay + 1, FirstDay + 2}

\* what complete() receives in the interactive specification
CsvContents == {{FirstDay + 1}}

\* values of an extension input on a drawn form: blank, "5", "-3", "2.5"
ExtensionInputs == {<<>>, <<"5">>, <<"-", "3">>, <<"2", ".", "5">>}

(***************************************************************************)
(* Form handlers                                                           *)
(***************************************************************************)
\* onChange of the lodgement date input
SetStartDate ==
  /\ \E value \in FormDates : startDate' = value
  /\ UNCHANGED <<endDate, holdPeriods, extensions, nonWorkingDays, result,
                 validationError, applicationType, nonWorkingDayNote, loadState, callVars>>

\* onChange of the decision date input
SetEndDate ==
  /\ \E value \in FormDates : endDate' = value
  /\ UNCHANGED <<startDate, holdPeriods, extensions, nonWorkingDays, result,
                 validationError, applicationType, nonWorkingDayNote, loadState, callVars>>

\* onChange of the application type select
SetApplicationType ==
  /\ \E value \in FormApplicationTypes : applicationType' = value
  /\ UNCHANGED <<startDate, endDate, holdPeriods, extensions, nonWorkingDays, result,
                 validationError, nonWorkingDayNote, loadState, callVars>>

holdFrame == <<startDate, endDate, extensions, nonWorkingDays, result,
               validationError, applicationType, nonWorkingDayNote, loadState, callVars>>

\* addHoldPeriod
AddHoldPeriod ==
  /\ Len(holdPeriods) < MaxFormHolds
  /\ holdPeriods' = Append(holdPeriods, [type |-> "s92(1)", start |-> NoDate, end |-> NoDate])
  /\ UNCHANGED holdFrame

\* removeHoldPeriod(id): the period at position i
RemoveHoldPeriod ==
  /\ \E i \in 1..Len(holdPeriods) :
       holdPeriods' = SubSeq(holdPeriods, 1, i - 1) \o SubSeq(holdPeriods, i + 1, Len(holdPeriods))
  /\ UNCHANGED holdFrame

\* onChange of a hold type select
SetHoldType ==
  /\ \E i \in 1..Len(holdPeriods), value \in FormHoldTypes :
       holdPeriods' = [holdPeriods EXCEPT ![i].type = value]
  /\ UNCHANGED holdFrame

\* onChange of a hold start date input
SetHoldStart ==
  /\ \E i \in 1..Len(holdPeriods), value \in FormDates :
       holdPeriods' = [holdPeriods EXCEPT ![i].start = value]
  /\ UNCHANGED holdFrame

\* onChange of a hold end date input
SetHoldEnd ==
  /\ \E i \in 1..Len(holdPeriods), value \in FormDates :
       holdPeriods' = [holdPeriods EXCEPT ![i].end = value]
  /\ UNCHANGED holdFrame

extensionFrame == <<startDate, endDate, holdPeriods, nonWorkingDays, result,
                    validationError, applicationType, nonWorkingDayNote, loadState, callVars>>

\* addExtension
AddExtension ==
  /\ Len(extensions) < MaxFormExtensions
  /\ extensions' = Append(extensions, [days |-> <<>>])
  /\ UNCHANGED extensionFrame

\* removeExtension(id): the row at position i
RemoveExtension ==
  /\ \E i \in 1..Len(extensions) :
       extensions' = SubSeq(extensions, 1, i - 1) \o SubSeq(extensions, i + 1, Len(extensions))
  /\ UNCHANGED extensionFrame

\* onChange of an extension days input
SetExtensionDays ==
  /\ \E i \in 1..Len(extensions), value \in FormExtensionValues :
       extensions' = [extensions EXCEPT ![i].days = value]
  /\ UNCHANGED extensionFrame

\* variant of HandleClear: the loaded set is emptied with the form
HandleClear_DropsSet ==
  /\ startDate' = NoDate
  /\ endDate' = NoDate
  /\ holdPeriods' = <<>>
  /\ extensions' = <<>>
  /\ result' = NoResult
  /\ nonWorkingDayNote' = NoNote
  /\ validationError' = NoError
  /\ applicationType' = "standard"
  /\ nonWorkingDays' = {}
  /\ UNCHANGED <<loadState, callVars>>

\* handleClear: the Clear button
HandleClear ==
  /\ startDate' = NoDate
  /\ endDate' = NoDate
  /\ holdPeriods' = <<>>
  /\ extensions' = <<>>
  /\ result' = NoResult
  /\ nonWorkingDayNote' = NoNote
  /\ validationError' = NoError
  /\ applicationType' = "standard"
  /\ UNCHANGED <<nonWorkingDays, loadState, callVars>>

(***************************************************************************)
(* loadNonWorkingDays, started once by the mount effect                    *)
(***************************************************************************)
loadFrame == <<startDate, endDate, holdPeriods, extensions, result,
               validationError, applicationType, nonWorkingDayNote, callVars>>

\* variant of LoadComplete: the displayed result is dropped when the set arrives
LoadComplete_Reactive ==
  /\ loadState = "pending"
  /\ \E parsedDates \in CsvContents : nonWorkingDays' = parsedDates
  /\ loadState' = "loaded"
  /\ result' = NoResult
  /\ UNCHANGED <<startDate, endDate, holdPeriods, extensions,
                 validationError, applicationType, nonWorkingDayNote, callVars>>

\* fetch and Papa.parse succeed: complete() calls setNonWorkingDays(parsedDates)
LoadComplete ==
  /\ loadState = "pending"
  /\ \E parsedDates \in CsvContents : nonWorkingDays' = parsedDates
  /\ loadState' = "loaded"
  /\ UNCHANGED loadFrame

\* fetch rejects or Papa.parse reports an error: console.error only
LoadError ==
  /\ loadState = "pending"
  /\ loadState' = "failed"
  /\ UNCHANGED <<nonWorkingDays, loadFrame>>

(***************************************************************************)
(* The component from its construction                                     *)
(***************************************************************************)
Init ==
  /\ startDate = NoDate
  /\ endDate = NoDate
  /\ holdPeriods = <<>>
  /\ extensions = <<>>
  /\ nonWorkingDays = {}
  /\ result = NoResult
  /\ validationError = NoError
  /\ applicationType = "standard"
  /\ nonWorkingDayNote = NoNote
  /\ loadState = "pending"
  /\ mergeInput = <<>>
  /\ mergeOutput = NoCall
  /\ NoOtherCall

Next ==
  \/ SetStartDate
  \/ SetEndDate
  \/ SetApplicationType
  \/ AddHoldPeriod
  \/ RemoveHoldPeriod
  \/ SetHoldType
  \/ SetHoldStart
  \/ SetHoldEnd
  \/ AddExtension
  \/ RemoveExtension
  \/ SetExtensionDays
  \/ CalculateResult
  \/ HandleClear
  \/ LoadComplete
  \/ LoadError

Spec == Init /\ [][Next]_vars

(***************************************************************************)
(* calculateResult on drawn forms: the form contents and the loaded set    *)
(* are drawn from bounded sets, each one reachable through the handlers    *)
(* above, and Calculate is pressed                                         *)
(***************************************************************************)
\* hold type of the i-th drawn hold period: one type per position
DrawnHoldTypes == <<"s92(1)", "s88E", "s91", "s91A">>

\* hold-period lists of up to MaxHolds periods with bounds in DateInputs
DrawnHoldLists ==
  UNION {{[i \in 1..n |-> [type |-> DrawnHoldTypes[i], start |-> f[i][1], end |-> f[i][2]]] :
            f \in [1..n -> DateInputs \X DateInputs]} : n \in 0..MaxHolds}

\* extension lists of up to MaxExtensions rows
DrawnExtensionLists ==
  UNION {{[i \in 1..n |-> [days |-> f[i]]] : f \in [1..n -> ExtensionInputs]} :
           n \in 0..MaxExtensions}

\* the loaded set: still empty, or any non-empty part of CsvDates
DrawnCalendars ==
  {<<"pending", {}>>} \cup {<<"loaded", dates>> : dates \in (SUBSET CsvDates) \ {{}}}

\* dates and hold periods vary over the window; no extensions, standard type
InitDatesAndHolds ==
  /\ startDate \in DateInputs
  /\ endDate \in DateInputs
  /\ holdPeriods \in DrawnHoldLists
  /\ extensions = <<>>
  /\ applicationType = "standard"
  /\ \E calendar \in DrawnCalendars :
       loadState = calendar[1] /\ nonWorkingDays = calendar[2]

\* extensions and application type vary; lodged Sun 7 or Mon 8 Jan 2024,
\* decided Sun 7, Mon 22 or Tue 23 Jan 2024; no hold periods
InitExtensionsAndTypes ==
  /\ startDate \in {FirstDay, FirstDay + 1}
  /\ endDate \in {FirstDay, FirstDay + 15, FirstDay + 16}
  /\ holdPeriods = <<>>
  /\ extensions \in DrawnExtensionLists
  /\ applicationType \in DOMAIN CONSENT_TYPES
  /\ \E calendar \in {<<"pending", {}>>, <<"loaded", CsvDates>>} :
       loadState = calendar[1] /\ nonWorkingDays = calendar[2]

InitCalc ==
  /\ result = NoResult
  /\ validationError = NoError
  /\ nonWorkingDayNote = NoNote
  /\ mergeInput = <<>>
  /\ mergeOutput = NoCall
  /\ NoOtherCall
  /\ (InitDatesAndHolds \/ InitExtensionsAndTypes)

NextCalc == CalculateResult

CalcSpec == InitCalc /\ [][NextCalc]_vars

(***************************************************************************)
(* calculateResult on the dated scenarios of January 2024 and of the       *)
(* 2024/25 holiday period                                                  *)
(***************************************************************************)
\* lodgement dates: Saturday 6, Monday 8 and Saturday 13 January 2024
ScenarioTriggers == {NewDate(2024, 1, 6), NewDate(2024, 1, 8), NewDate(2024, 1, 13)}

\* decision dates: Monday 15 and Tuesday 16 January 2024
ScenarioDecisions == {NewDate(2024, 1, 15), NewDate(2024, 1, 16)}

\* bounds of a hold period: Tue 9 - Tue 9, Wed 10 - Fri 12, Fri 12 - Mon 15
ScenarioHoldBounds ==
  {<<NewDate(2024, 1, 9), NewDate(2024, 1, 9)>>,
   <<NewDate(2024, 1, 10), NewDate(2024, 1, 12)>>,
   <<NewDate(2024, 1, 12), NewDate(2024, 1, 15)>>}

\* hold-period lists of up to MaxHolds periods with bounds in ScenarioHoldBounds
ScenarioHoldLists ==
  UNION {{[i \in 1..n |-> [type |-> DrawnHoldTypes[i], start |-> f[i][1], end |-> f[i][2]]] :
            f \in [1..n -> ScenarioHoldBounds]} : n \in 0..MaxHolds}

\* the loaded set in January 2024: still empty, or any part of Mon 8, Tue 9
ScenarioCalendars ==
  {<<"pending", {}>>}
  \cup {<<"loaded", dates>> : dates \in SUBSET {NewDate(2024, 1, 8), NewDate(2024, 1, 9)}}

\* weekdays from Mon 23 December 2024 to Fri 3 January 2025
HolidayPeriodWeekdays ==
  {date \in NewDate(2024, 12, 23)..NewDate(2025, 1, 3) : ~IsWeekend(date)}

\* the loaded set over the 2024/25 holiday period: still empty, the public
\* holidays only, or every weekday of the period
HolidayPeriodCalendars ==
  {<<"pending", {}>>,
   <<"loaded", {}>>,
   <<"loaded", {NewDate(2024, 12, 25), NewDate(2024, 12, 26),
                NewDate(2025, 1, 1), NewDate(2025, 1, 2)}>>,
   <<"loaded", HolidayPeriodWeekdays>>}

\* January 2024: standard type, no extensions
InitJanuary ==
  /\ startDate \in ScenarioTriggers
  /\ endDate \in ScenarioDecisions
  /\ holdPeriods \in ScenarioHoldLists
  /\ extensions = <<>>
  /\ applicationType = "standard"
  /\ \E calendar \in ScenarioCalendars :
       loadState = calendar[1] /\ nonWorkingDays = calendar[2]

\* lodged Sunday 22 December 2024, decided Sunday 5 January 2025
InitHolidayPeriod ==
  /\ startDate = NewDate(2024, 12, 22)
  /\ endDate = NewDate(2025, 1, 5)
  /\ holdPeriods = <<>>
  /\ extensions = <<>>
  /\ applicationType \in DOMAIN CONSENT_TYPES
  /\ \E calendar \in HolidayPeriodCalendars :
       loadState = calendar[1] /\ nonWorkingDays = calendar[2]

InitScenario ==
  /\ result = NoResult
  /\ validationError = NoError
  /\ nonWorkingDayNote = NoNote
  /\ mergeInput = <<>>
  /\ mergeOutput = NoCall
  /\ NoOtherCall
  /\ (InitJanuary \/ InitHolidayPeriod)

NextScenario == CalculateResult

ScenarioSpec == InitScenario /\ [][NextScenario]_vars

(***************************************************************************)
(* mergeIntervals on its own: the array is drawn from the arrays of clamped *)
(* intervals (start <= end) over the window, the function is called on it  *)
(* and then on the array it returned                                       *)
(***************************************************************************)
\* clamped intervals over the window
DrawnIntervals == {[start |-> s, end |-> e] : <<s, e>> \in {pair \in Days \X Days : pair[1] <= pair[2]}}

\* arrays of up to MaxIntervals intervals, in any order
DrawnIntervalLists == UNION {[1..n -> DrawnIntervals] : n \in 0..MaxIntervals}

InitMerge ==
  /\ startDate = NoDate
  /\ endDate = NoDate
  /\ holdPeriods = <<>>
  /\ extensions = <<>>
  /\ nonWorkingDays = {}
  /\ result = NoResult
  /\ validationError = NoError
  /\ applicationType = "standard"
  /\ nonWorkingDayNote = NoNote
  /\ loadState = "pending"
  /\ mergeInput \in DrawnIntervalLists
  /\ mergeOutput = NoCall
  /\ NoOtherCall

\* merged = mergeIntervals(intervals)
CallMergeIntervals ==
  /\ mergeOutput = NoCall
  /\ mergeOutput' = <<MergeIntervals(mergeInput)>>
  /\ mergeInput' = IntervalsAfterMerge(mergeInput)
  /\ UNCHANGED <<inputVars, nonWorkingDays, result, validationError,
                 nonWorkingDayNote, loadState, clampVars, countVars, loopVars>>

\* mergeIntervals(merged): the array returned is passed in again
CallMergeIntervalsOnResult ==
  /\ mergeOutput # NoCall
  /\ mergeOutput' = <<MergeIntervals(mergeOutput[1])>>
  /\ mergeInput' = IntervalsAfterMerge(mergeOutput[1])
  /\ UNCHANGED <<inputVars, nonWorkingDays, result, validationError,
                 nonWorkingDayNote, loadState, clampVars, countVars, loopVars>>

NextMerge ==
  \/ CallMergeIntervals
  \/ CallMergeIntervalsOnResult

MergeSpec == InitMerge /\ [][NextMerge]_vars

(***************************************************************************)
(* clampIntervalToRange on its own: a hold interval and a main range, each *)
(* with start <= end, are drawn over the window; the function is called on *)
(* them and then on the interval it returned                               *)
(***************************************************************************)
\* argument lists (holdStart, holdEnd, mainStart, mainEnd)
DrawnClampArgs ==
  {[holdStart |-> hold.start, holdEnd |-> hold.end,
    mainStart |-> main.start, mainEnd |-> main.end] :
     hold \in DrawnIntervals, main \in DrawnIntervals}

InitClamp ==
  /\ startDate = NoDate
  /\ endDate = NoDate
  /\ holdPeriods = <<>>
  /\ extensions = <<>>
  /\ nonWorkingDays = {}
  /\ result = NoResult
  /\ validationError = NoError
  /\ applicationType = "standard"
  /\ nonWorkingDayNote = NoNote
  /\ loadState = "pending"
  /\ mergeInput = <<>>
  /\ mergeOutput = NoCall
  /\ clampArgs \in DrawnClampArgs
  /\ clampReturn = NoCall
  /\ countArgs = <<>>
  /\ countReturn = NoCall
  /\ loopDate = NoDate
  /\ loopState = "idle"

\* clamped = clampIntervalToRange(holdStart, holdEnd, mainStart, mainEnd)
CallClampIntervalToRange ==
  /\ clampReturn = NoCall
  /\ clampReturn' = <<ClampIntervalToRange(clampArgs.holdStart, clampArgs.holdEnd,
                                           clampArgs.mainStart, clampArgs.mainEnd)>>
  /\ UNCHANGED <<clampArgs, inputVars, nonWorkingDays, result, validationError,
                 nonWorkingDayNote, loadState, mergeVars, countVars, loopVars>>

\* clampIntervalToRange(clamped.start, clamped.end, mainStart, mainEnd): the
\* interval returned is clamped to the same range again
CallClampOnResult ==
  /\ clampReturn # NoCall
  /\ clampReturn[1] # <<>>
  /\ clampArgs' = [clampArgs EXCEPT !.holdStart = clampReturn[1][1].start,
                                    !.holdEnd = clampReturn[1][1].end]
  /\ clampReturn' = <<ClampIntervalToRange(clampReturn[1][1].start, clampReturn[1][1].end,
                                           clampArgs.mainStart, clampArgs.mainEnd)>>
  /\ UNCHANGED <<inputVars, nonWorkingDays, result, validationError,
                 nonWorkingDayNote, loadState, mergeVars, countVars, loopVars>>

NextClamp ==
  \/ CallClampIntervalToRange
  \/ CallClampOnResult

ClampSpec == InitClamp /\ [][NextClamp]_vars

(***************************************************************************)
(* calculateWorkingDays on its own: the loaded set and the arguments are   *)
(* drawn over the window and the function is called                        *)
(***************************************************************************)
\* argument lists (start, end, skipStartDay)
DrawnCountArgs ==
  {[start |-> start, end |-> end, skipStartDay |-> skipStartDay] :
     start \in Days, end \in Days, skipStartDay \in BOOLEAN}

InitCount ==
  /\ startDate = NoDate
  /\ endDate = NoDate
  /\ holdPeriods = <<>>
  /\ extensions = <<>>
  /\ \E calendar \in DrawnCalendars :
       loadState = calendar[1] /\ nonWorkingDays = calendar[2]
  /\ result = NoResult
  /\ validationError = NoError
  /\ applicationType = "standard"
  /\ nonWorkingDayNote = NoNote
  /\ mergeInput = <<>>
  /\ mergeOutput = NoCall
  /\ clampArgs = <<>>
  /\ clampReturn = NoCall
  /\ countArgs \in DrawnCountArgs
  /\ countReturn = NoCall
  /\ loopDate = NoDate
  /\ loopState = "idle"

\* calculateWorkingDays(start, end, skipStartDay)
CallCalculateWorkingDays ==
  /\ countReturn = NoCall
  /\ countReturn' = <<CalculateWorkingDays(countArgs.start, countArgs.end,
                                           countArgs.skipStartDay)>>
  /\ UNCHANGED <<countArgs, inputVars, nonWorkingDays, result, validationError,
                 nonWorkingDayNote, loadState, mergeVars, clampVars, loopVars>>

NextCount == CallCalculateWorkingDays

CountSpec == InitCount /\ [][NextCount]_vars

(***************************************************************************)
(* Step 3 of calculateResult iteration by iteration: the dates and the     *)
(* loaded set are drawn over the window; the loop is entered when the      *)
(* validation passes and the short-circuit is not taken.  calculateResult  *)
(* runs to completion once started, hence the weak fairness.               *)
(***************************************************************************)
InitLoop ==
  /\ startDate \in DateInputs
  /\ endDate \in DateInputs
  /\ holdPeriods = <<>>
  /\ extensions = <<>>
  /\ \E calendar \in DrawnCalendars :
       loadState = calendar[1] /\ nonWorkingDays = calendar[2]
  /\ result = NoResult
  /\ validationError = NoError
  /\ applicationType = "standard"
  /\ nonWorkingDayNote = NoNote
  /\ mergeInput = <<>>
  /\ mergeOutput = NoCall
  /\ clampArgs = <<>>
  /\ clampReturn = NoCall
  /\ countArgs = <<>>
  /\ countReturn = NoCall
  /\ loopDate = NoDate
  /\ loopState = "idle"

loopFrame == <<inputVars, nonWorkingDays, result, validationError, nonWorkingDayNote,
               loadState, mergeVars, clampVars, countVars>>

\* let adjustedStart = new Date(originalStart), reached past the validation
\* and the short-circuit test
EnterDay0Loop ==
  /\ loopState = "idle"
  /\ Validate = NoError
  /\ ~TakesShortCircuit(startDate, endDate)
  /\ loopDate' = startDate
  /\ loopState' = "running"
  /\ UNCHANGED loopFrame

\* while (!isWorkingDay(adjustedStart)) adjustedStart = addDays(adjustedStart, 1)
Day0LoopIteration ==
  /\ loopState = "running"
  /\ ~IsWorkingDay(loopDate)
  /\ loopDate' = AddDays(loopDate, 1)
  /\ UNCHANGED <<loopState, loopFrame>>

\* the loop condition is false: adjustedStart is Day 0
Day0LoopExit ==
  /\ loopState = "running"
  /\ IsWorkingDay(loopDate)
  /\ loopState' = "done"
  /\ UNCHANGED <<loopDate, loopFrame>>

NextLoop ==
  \/ EnterDay0Loop
  \/ Day0LoopIteration
  \/ Day0LoopExit

LoopSpec == InitLoop /\ [][NextLoop]_vars /\ WF_vars(NextLoop)

(***************************************************************************)
(* Hold periods added to a form between calculations: a fast-track         *)
(* application lodged Saturday 6 or Monday 8 January 2024 and decided       *)
(* Tuesday 23 or Wednesday 24 January; the user adds hold periods, fills in *)
(* their blank dates and presses Calculate, never changing what is entered  *)
(***************************************************************************)
\* dates typed into the blank fields of a hold period: Tue 9, Wed 10, Fri 12
HoldFillDates == {NewDate(2024, 1, 9), NewDate(2024, 1, 10), NewDate(2024, 1, 12)}

InitHolds ==
  /\ startDate \in {NewDate(2024, 1, 6), NewDate(2024, 1, 8)}
  /\ endDate \in {NewDate(2024, 1, 23), NewDate(2024, 1, 24)}
  /\ holdPeriods = <<>>
  /\ extensions = <<>>
  /\ applicationType = "fastTrack"
  /\ \E calendar \in {<<"pending", {}>>, <<"loaded", {NewDate(2024, 1, 9)}>>} :
       loadState = calendar[1] /\ nonWorkingDays = calendar[2]
  /\ result = NoResult
  /\ validationError = NoError
  /\ nonWorkingDayNote = NoNote
  /\ mergeInput = <<>>
  /\ mergeOutput = NoCall
  /\ NoOtherCall

\* addHoldPeriod, up to MaxHolds periods
AddFurtherHoldPeriod ==
  /\ Len(holdPeriods) < MaxHolds
  /\ holdPeriods' = Append(holdPeriods, [type |-> "s92(1)", start |-> NoDate, end |-> NoDate])
  /\ UNCHANGED holdFrame

\* onChange of a hold start date input that is still blank
FillHoldStart ==
  /\ \E i \in 1..Len(holdPeriods), value \in HoldFillDates :
       /\ holdPeriods[i].start = NoDate
       /\ holdPeriods' = [holdPeriods EXCEPT ![i].start = value]
  /\ UNCHANGED holdFrame

\* onChange of a hold end date input that is still blank
FillHoldEnd ==
  /\ \E i \in 1..Len(holdPeriods), value \in HoldFillDates :
       /\ holdPeriods[i].end = NoDate
       /\ holdPeriods' = [holdPeriods EXCEPT ![i].end = value]
  /\ UNCHANGED holdFrame

NextHolds ==
  \/ AddFurtherHoldPeriod
  \/ FillHoldStart
  \/ FillHoldEnd
  \/ CalculateResult

HoldSpec == InitHolds /\ [][NextHolds]_vars

(***************************************************************************)
(* Properties                                                              *)
(***************************************************************************)
\* messages of the three hold-period checks
StartBeforeLodgementMsg == "Excluded period start date is before the lodgement date."
EndAfterDecisionMsg == "Excluded period end date is after the decision date."
StartAfterEndMsg == "Excluded period start date cannot be after the end date."

\* both bounds of the hold period are set
BothSet(p) == p.start # NoDate /\ p.end # NoDate

\* C1: every result satisfies finalDays = max(0, totalDays - holdDays) and
\* holdDays <= totalDays, hence finalDays >= 0
C1_FinalDaysInvariant ==
  result # NoResult =>
    LET r == result[1] IN
    /\ r.finalDays = (IF r.totalDays - r.holdDays > 0 THEN r.totalDays - r.holdDays ELSE 0)
    /\ r.holdDays <= r.totalDays
    /\ r.finalDays >= 0

\* a result whose raw hold total exceeds a positive elapsed total
C1_Witness ==
  /\ result # NoResult
  /\ result[1].rawHoldDays > result[1].totalDays
  /\ result[1].totalDays > 0

\* the seasonal blackout as specified: on/after 20 Dec or on/before 10 Jan
C2_SeasonalBlackout(date) ==
  LET c == Civil(date) IN (c.month = 12 /\ c.day >= 20) \/ (c.month = 1 /\ c.day <= 10)

\* C2: isWorkingDay(date) is false exactly when the date is a Saturday or
\* Sunday, or is in the loaded set, or lies in the seasonal blackout, whatever
\* the loaded set holds
C2_IsWorkingDayAsSpecified ==
  \A date \in Days :
    IsWorkingDay(date) =
      ~(GetDay(date) \in {0, 6} \/ date \in nonWorkingDays \/ C2_SeasonalBlackout(date))

\* C3: once calculate has ended with a validation error, no result is held
\* alongside the error
C3_ErrorWithoutResult == validationError # NoError => result = NoResult

\* the hold period does not lie within [trigger, decisionDate]
C4_Outside(p) ==
  ~(startDate <= p.start /\ p.start <= endDate /\ startDate <= p.end /\ p.end <= endDate)

\* the causes of a validation error named by the claim
C4_Invalid ==
  \/ startDate = NoDate
  \/ endDate = NoDate
  \/ endDate < startDate
  \/ \E i \in 1..Len(holdPeriods) :
       BothSet(holdPeriods[i])
       /\ (C4_Outside(holdPeriods[i]) \/ holdPeriods[i].start > holdPeriods[i].end)

\* C4: calculate ends with a validation error exactly when a date is missing,
\* the decision precedes the trigger, or a hold period with both bounds set
\* is out of range or inverted; every other input produces a result
C4_ValidationIff ==
  [][CalculateResult =>
       /\ (validationError' # NoError) <=> C4_Invalid
       /\ ~C4_Invalid => (result' # NoResult /\ validationError' = NoError)]_vars

\* accepted: decision on the trigger date, with a hold period of which only
\* one bound is set
C4_Witness ==
  /\ validationError = NoError
  /\ result # NoResult
  /\ startDate = endDate
  /\ \E i \in 1..Len(holdPeriods) :
       (holdPeriods[i].start = NoDate) # (holdPeriods[i].end = NoDate)

\* C5 as claimed: whenever some hold period fails a range check (it starts
\* before the trigger or ends after the decision date) and some hold period
\* is inverted, the error reported is an out-of-range error, whatever the
\* order of the hold periods
C5_OutOfRangeBeforeInverted ==
  ( /\ validationError # NoError
    /\ startDate # NoDate /\ endDate # NoDate /\ startDate <= endDate
    /\ \E i \in 1..Len(holdPeriods) :
         BothSet(holdPeriods[i])
         /\ (holdPeriods[i].start < startDate \/ holdPeriods[i].end > endDate)
    /\ \E i \in 1..Len(holdPeriods) :
         BothSet(holdPeriods[i]) /\ holdPeriods[i].start > holdPeriods[i].end )
  => validationError[1] \in {StartBeforeLodgementMsg, EndAfterDecisionMsg}

\* the hold period fails one of the three checks
C5_Fails(p) ==
  BothSet(p) /\ (p.start < startDate \/ p.end > endDate \/ p.start > p.end)

\* the one error calculate reports: the date rules in their order, then the
\* first failing check of the first failing hold period in list order
C5_Expected ==
  IF startDate = NoDate /\ endDate = NoDate
  THEN <<"Please enter both lodgement date and decision issue date">>
  ELSE IF startDate = NoDate THEN <<"Please enter a lodgement date">>
  ELSE IF endDate = NoDate THEN <<"Please enter a decision issue date">>
  ELSE IF endDate < startDate THEN <<"Decision issue date must be after lodgement date">>
  ELSE IF \A i \in 1..Len(holdPeriods) : ~C5_Fails(holdPeriods[i]) THEN NoError
  ELSE LET first == CHOOSE i \in 1..Len(holdPeriods) :
                      C5_Fails(holdPeriods[i])
                      /\ \A k \in 1..(i - 1) : ~C5_Fails(holdPeriods[k])
           p == holdPeriods[first]
       IN IF p.start < startDate THEN <<StartBeforeLodgementMsg, p.type>>
          ELSE IF p.end > endDate THEN <<EndAfterDecisionMsg, p.type>>
          ELSE <<StartAfterEndMsg, p.type>>

\* C5 amended: calculate reports exactly one error; the date rules come first
\* in the order both-missing, start-missing, end-missing, end-before-start;
\* then the first hold period in list order that fails a check decides, and
\* within it start-before-trigger, end-after-decision, start-after-end
C5_FirstFoundWins == [][CalculateResult => validationError' = C5_Expected]_vars

\* the first hold period is inverted and reported, although the second one
\* is out of range
C5_Witness ==
  /\ Len(holdPeriods) >= 2
  /\ validationError = <<StartAfterEndMsg, holdPeriods[1].type>>
  /\ BothSet(holdPeriods[2])
  /\ holdPeriods[2].start < startDate

\* the fixed table of base allowances
C6_BaseDays ==
  CASE applicationType = "fastTrack" -> 10
    [] applicationType = "standard" -> 20
    [] applicationType = "notifiednohearing" -> 60
    [] applicationType = "limitedNotified" -> 100
    [] applicationType = "publiclyNotified" -> 130

C7_IsNonNegativeInteger(str) ==
  Len(str) > 0 /\ \A k \in 1..Len(str) : IsDigit(str[k])

RECURSIVE C7_Value(_)
\* decimal value of a string of digits
C7_Value(str) ==
  IF Len(str) = 0 THEN 0
  ELSE C7_Value(SubSeq(str, 1, Len(str) - 1)) * 10 + DigitValue(str[Len(str)])

RECURSIVE C7_Sum(_)
\* sum of the entries from position i on that are valid non-negative integers
C7_Sum(i) ==
  IF i > Len(extensions) THEN 0
  ELSE (IF C7_IsNonNegativeInteger(extensions[i].days)
        THEN C7_Value(extensions[i].days) ELSE 0) + C7_Sum(i + 1)

\* C7: the extension total of a result is the sum of the entries that are
\* valid non-negative integers, every other entry contributing 0, so neither
\* it nor maxDays - baseDays is negative
C7_ExtensionTotal ==
  result # NoResult =>
    LET r == result[1] IN
    /\ r.extensionDays = C7_Sum(1)
    /\ r.extensionDays >= 0
    /\ r.maxDays - CONSENT_TYPES[applicationType] >= 0

\* every date of [trigger, decisionDate] is classified non-working
C8_AllNonWorking ==
  \A date \in startDate..endDate : GetDay(date) \in {0, 6} \/ date \in nonWorkingDays

\* C8: for validated input, when every date of [trigger, decisionDate]
\* (the trigger included) is non-working the result is the all-zero result
\* with the no-processing-days note and no Day 0 note; when some date of the
\* range is a working day the short-circuit is not taken
C8_ShortCircuit ==
  (validationError = NoError /\ result # NoResult) =>
    LET r == result[1] IN
    IF C8_AllNonWorking
    THEN /\ r.totalDays = 0 /\ r.rawHoldDays = 0 /\ r.holdDays = 0 /\ r.finalDays = 0
         /\ r.isOvertime = FALSE
         /\ r.calendarStats = [totalCalendarDays |-> 0, weekendDays |-> 0, holidayDays |-> 0]
         /\ r.details.holdPeriodDetails = <<>>
         /\ r.wasExcludedDaysClamped = FALSE
         /\ nonWorkingDayNote = AllNonWorkingNote
    ELSE nonWorkingDayNote # AllNonWorkingNote

\* the short-circuit taken over several days with a hold period on the form
C8_Witness ==
  /\ validationError = NoError
  /\ result # NoResult
  /\ startDate < endDate
  /\ C8_AllNonWorking
  /\ \E i \in 1..Len(holdPeriods) : BothSet(holdPeriods[i])
  /\ nonWorkingDayNote = AllNonWorkingNote

\* C9: in every result outside the short-circuit holdDays = min(rawHoldDays,
\* totalDays); when the raw total exceeds the elapsed total the clamped total
\* is the elapsed total and the clamping flag is set
C9_HoldTotalCapped ==
  (result # NoResult /\ nonWorkingDayNote # AllNonWorkingNote) =>
    LET r == result[1] IN
    /\ r.holdDays = (IF r.rawHoldDays <= r.totalDays THEN r.rawHoldDays ELSE r.totalDays)
    /\ r.rawHoldDays > r.totalDays =>
         (r.holdDays = r.totalDays /\ r.wasExcludedDaysClamped = TRUE)

\* a hold period running from a working trigger date (Day 0) to the decision
\* date: the raw total exceeds the elapsed total and the flag is set
C9_Witness ==
  /\ result # NoResult
  /\ nonWorkingDayNote = NoNote
  /\ startDate < endDate
  /\ \E i \in 1..Len(holdPeriods) :
       holdPeriods[i].start = startDate /\ holdPeriods[i].end = endDate
  /\ result[1].rawHoldDays > result[1].totalDays
  /\ result[1].holdDays = result[1].totalDays
  /\ result[1].totalDays > 0
  /\ result[1].wasExcludedDaysClamped

C11_WeekendOrBlackout(date) == GetDay(date) \in {0, 6} \/ C2_SeasonalBlackout(date)

\* C11: once the load has failed the set stays empty, the failure raises no
\* validation error and changes nothing displayed, and every calculate on
\* valid input still produces a result in which weekends and the blackout
\* are non-working: a range lying wholly in weekends and the blackout gives
\* the all-zero result with the no-processing-days note
C11_DegradedMode ==
  [][/\ loadState' = "failed" => nonWorkingDays' = {}
     /\ (loadState = "pending" /\ loadState' = "failed") =>
          UNCHANGED <<result, validationError, nonWorkingDayNote>>
     /\ (loadState = "failed" /\ CalculateResult /\ ~C4_Invalid) =>
          /\ validationError' = NoError
          /\ result' # NoResult
          /\ (\A date \in startDate..endDate : C11_WeekendOrBlackout(date)) =>
               /\ nonWorkingDayNote' = AllNonWorkingNote
               /\ result'[1].totalDays = 0]_vars

\* the form of Scenario A has been calculated: lodged Monday 2024-01-08,
\* decided Monday 2024-01-15, standard type, no hold periods or extensions
C12_ScenarioAForm ==
  /\ startDate = NewDate(2024, 1, 8)
  /\ endDate = NewDate(2024, 1, 15)
  /\ applicationType = "standard"
  /\ holdPeriods = <<>>
  /\ extensions = <<>>
  /\ validationError = NoError
  /\ result # NoResult

\* the figures of Scenario A
C12_Figures ==
  LET r == result[1] IN
  r.totalDays = 5 /\ r.finalDays = 5 /\ r.maxDays = 20 /\ r.isOvertime = FALSE

WeekendCause == "As this falls on a weekend, the statutory 'Day 0' will be"
HolidayCause == "As this is a public holiday, the statutory 'Day 0' will be"
BlackoutCause == "As this falls within the non-working day period between 20 December and 10 January (inclusive), the statutory 'Day 0' will be"

\* a result other than the short-circuit result has been calculated for a
\* form lodged on the date
C13_AdjustedFrom(date) ==
  /\ startDate = date
  /\ validationError = NoError
  /\ result # NoResult
  /\ nonWorkingDayNote # AllNonWorkingNote

\* C13 as claimed: lodged Saturday 2024-01-06 with a decision date avoiding
\* the short-circuit, the note names Monday 8 January 2024 as Day 0 and the
\* weekend as the cause
C13_ScenarioB ==
  C13_AdjustedFrom(NewDate(2024, 1, 6)) =>
    /\ nonWorkingDayNote # NoNote
    /\ nonWorkingDayNote[4] = <<"Monday", 8, "Jan", 2024>>
    /\ nonWorkingDayNote[3] = WeekendCause

\* C13 amended: lodged Saturday 2024-01-06, Day 0 is the first later date
\* that is neither a weekend day nor listed (Monday 8 January 2024 when the
\* set does not list it) and the note names the 20 Dec - 10 Jan period as the
\* cause; lodged Saturday 2024-01-13, outside that period, Day 0 is Monday 15
\* January 2024 and the note names the weekend
C13_BlackoutNoteFirst ==
  /\ C13_AdjustedFrom(NewDate(2024, 1, 6)) =>
       /\ nonWorkingDayNote # NoNote
       /\ nonWorkingDayNote[3] = BlackoutCause
       /\ \E day0 \in (NewDate(2024, 1, 6) + 1)..NewDate(2024, 1, 16) :
            /\ nonWorkingDayNote[4] = FormatLong(day0)
            /\ GetDay(day0) \notin {0, 6} /\ day0 \notin nonWorkingDays
            /\ \A date \in NewDate(2024, 1, 6)..(day0 - 1) :
                 GetDay(date) \in {0, 6} \/ date \in nonWorkingDays
       /\ NewDate(2024, 1, 8) \notin nonWorkingDays =>
            nonWorkingDayNote[4] = <<"Monday", 8, "Jan", 2024>>
  /\ C13_AdjustedFrom(NewDate(2024, 1, 13)) =>
       /\ nonWorkingDayNote # NoNote
       /\ nonWorkingDayNote[3] = WeekendCause
       /\ nonWorkingDayNote[4] = <<"Monday", 15, "Jan", 2024>>

\* lodged Saturday 2024-01-06 with Monday 8 January not listed: Day 0 is
\* Monday 8 January and the note names the 20 Dec - 10 Jan period
C13_Witness ==
  /\ C13_AdjustedFrom(NewDate(2024, 1, 6))
  /\ NewDate(2024, 1, 8) \notin nonWorkingDays
  /\ nonWorkingDayNote[3] = BlackoutCause
  /\ nonWorkingDayNote[4] = <<"Monday", 8, "Jan", 2024>>

\* C14: Scenario C, lodged 2024-12-22 and decided 2025-01-05, both inside the
\* blackout: whatever the loaded set holds, calculate takes the all-non-working
\* short-circuit and the result is all zeros
C14_ScenarioC ==
  ( /\ startDate = NewDate(2024, 12, 22)
    /\ endDate = NewDate(2025, 1, 5)
    /\ validationError = NoError
    /\ result # NoResult )
  => LET r == result[1] IN
     /\ nonWorkingDayNote = AllNonWorkingNote
     /\ r.totalDays = 0 /\ r.holdDays = 0 /\ r.rawHoldDays = 0 /\ r.finalDays = 0
     /\ r.extensionDays = 0
     /\ r.isOvertime = FALSE
     /\ r.calendarStats = [totalCalendarDays |-> 0, weekendDays |-> 0, holidayDays |-> 0]

\* the date is neither a weekend day nor in the loaded set
WorkingDate(date) == GetDay(date) \notin {0, 6} /\ date \notin nonWorkingDays

\* a result other than the short-circuit result has been calculated
AdjustedResult ==
  /\ validationError = NoError
  /\ result # NoResult
  /\ nonWorkingDayNote # AllNonWorkingNote

\* C15: whenever the short-circuit is not taken, Day 0 is the earliest working
\* day at or after the trigger: a working trigger is Day 0 itself (no
\* adjustment is recorded and the count starts the day after the trigger);
\* otherwise the Day 0 named in the note is later than the trigger, is a
\* working day, and every date from the trigger up to it is non-working
C15_Day0Adjustment ==
  AdjustedResult =>
    IF WorkingDate(startDate)
    THEN /\ nonWorkingDayNote = NoNote
         /\ result[1].totalDays =
              Cardinality({date \in (startDate + 1)..endDate : WorkingDate(date)})
    ELSE /\ nonWorkingDayNote # NoNote
         /\ \E day0 \in (startDate + 1)..endDate :
              /\ nonWorkingDayNote[4] = FormatLong(day0)
              /\ WorkingDate(day0)
              /\ \A date \in startDate..(day0 - 1) : ~WorkingDate(date)

\* lodged Saturday 6 January 2024 with Monday 8 and Tuesday 9 listed: Day 0
\* is Wednesday 10 January
C15_Witness ==
  /\ AdjustedResult
  /\ startDate = NewDate(2024, 1, 6)
  /\ nonWorkingDays = {NewDate(2024, 1, 8), NewDate(2024, 1, 9)}
  /\ nonWorkingDayNote[4] = <<"Wednesday", 10, "Jan", 2024>>

\* Day 0 of a calculated form: the earliest working day at or after the trigger
Day0OfForm ==
  CHOOSE day0 \in startDate..endDate :
    WorkingDate(day0) /\ \A date \in startDate..(day0 - 1) : ~WorkingDate(date)

\* C16: the elapsed total is the number of working days d with
\* Day 0 < d <= decisionDate: Day 0 itself never counts, the decision date
\* counts when it is a working day after Day 0, and the total is 0 when the
\* decision date is Day 0
C16_ElapsedAfterDay0 ==
  AdjustedResult =>
    LET totalDays == result[1].totalDays IN
    /\ totalDays = Cardinality({date \in (Day0OfForm + 1)..endDate : WorkingDate(date)})
    /\ totalDays <= endDate - Day0OfForm
    /\ (WorkingDate(endDate) /\ endDate > Day0OfForm) => totalDays >= 1
    /\ endDate = Day0OfForm => totalDays = 0

\* lodged Saturday 13 January 2024 and decided on Day 0, Monday 15 January
C16_Witness ==
  /\ AdjustedResult
  /\ startDate < endDate
  /\ endDate = Day0OfForm
  /\ result[1].totalDays = 0

\* the days covered by an array of intervals
DaysCovered(list) ==
  {date \in Days : \E k \in 1..Len(list) : list[k].start <= date /\ date <= list[k].end}

\* C17: mergeIntervals sorts by start and merges the next interval into the
\* current one whenever next.start <= current.end plus one day: the array
\* returned covers the days of the argument, is sorted, and any two
\* consecutive intervals of it are separated by a gap of at least one day
\* (adjacent, touching and overlapping intervals have been merged)
C17_MergesAdjacent ==
  [][CallMergeIntervals =>
       LET out == mergeOutput'[1] IN
       /\ DaysCovered(out) = DaysCovered(mergeInput)
       /\ \A k \in 1..Len(out) : out[k].start <= out[k].end
       /\ \A k \in 1..(Len(out) - 1) : out[k + 1].start > out[k].end + 1]_vars

\* the array is sorted by start and no two of its intervals share a day
C18_SortedAndDisjoint(list) ==
  /\ \A k \in 1..Len(list) : list[k].start <= list[k].end
  /\ \A k \in 1..(Len(list) - 1) : list[k].start <= list[k + 1].start
  /\ \A j, k \in 1..Len(list) :
       j # k => ~(\E date \in Days : /\ list[j].start <= date /\ date <= list[j].end
                                     /\ list[k].start <= date /\ date <= list[k].end)

\* C18: mergeIntervals is idempotent: called on an array it returned it
\* returns the same array; and every array it returns is sorted by start
\* with no two intervals sharing a day
C18_Idempotent ==
  [][/\ CallMergeIntervals => C18_SortedAndDisjoint(mergeOutput'[1])
     /\ CallMergeIntervalsOnResult =>
          /\ mergeOutput' = mergeOutput
          /\ C18_SortedAndDisjoint(mergeOutput'[1])]_vars

\* an array of two adjacent intervals, as returned, has been passed in
C18_Witness ==
  /\ mergeOutput # NoCall
  /\ Len(mergeOutput[1]) = 2
  /\ mergeInput = mergeOutput[1]
  /\ mergeOutput[1][1].end + 1 = mergeOutput[1][2].start

\* the hold periods of Scenario D, in either order
C19_ScenarioDHolds ==
  /\ Len(holdPeriods) = 2
  /\ {<<holdPeriods[k].start, holdPeriods[k].end>> : k \in 1..2} =
       {<<NewDate(2024, 1, 10), NewDate(2024, 1, 12)>>,
        <<NewDate(2024, 1, 12), NewDate(2024, 1, 15)>>}

\* C19: the raw hold total is the number of distinct working days in the
\* union of the hold intervals clamped to [Day 0, decisionDate], so a day
\* covered by several hold periods counts once and the order of the periods
\* does not matter; the holds 2024-01-10..12 and 2024-01-12..15 merge into
\* 2024-01-10..15 and give a total of 4 with no date listed, Friday 12 counted
\* once
C19_DistinctHoldDays ==
  AdjustedResult =>
    /\ result[1].rawHoldDays =
         Cardinality({date \in Day0OfForm..endDate :
                        /\ WorkingDate(date)
                        /\ \E k \in 1..Len(holdPeriods) :
                             /\ BothSet(holdPeriods[k])
                             /\ holdPeriods[k].start <= date
                             /\ date <= holdPeriods[k].end})
    /\ (C19_ScenarioDHolds /\ nonWorkingDays = {}) =>
         /\ MergeIntervals([k \in 1..2 |->
              [start |-> holdPeriods[k].start, end |-> holdPeriods[k].end]]) =
              <<[start |-> NewDate(2024, 1, 10), end |-> NewDate(2024, 1, 15)]>>
         /\ result[1].rawHoldDays = 4

\* Scenario D calculated with the later hold period listed first: the
\* periods count 2 and 3 working days, the total is 4
C19_Witness ==
  /\ AdjustedResult
  /\ C19_ScenarioDHolds
  /\ holdPeriods[1].start = NewDate(2024, 1, 12)
  /\ nonWorkingDays = {}
  /\ result[1].details.holdPeriodDetails[1].days = 2
  /\ result[1].details.holdPeriodDetails[2].days = 3
  /\ result[1].rawHoldDays = 4

RECURSIVE C20_PerPeriodSum(_, _)
\* sum of the days of the per-period breakdown from position i on
C20_PerPeriodSum(details, i) ==
  IF i > Len(details) THEN 0
  ELSE details[i].days + C20_PerPeriodSum(details, i + 1)

\* C20: in every result the working days counted over the merged hold
\* intervals do not exceed the sum of the working days counted period by
\* period (nor does the clamped total)
C20_MergedAtMostPerPeriod ==
  result # NoResult =>
    LET r == result[1]
        perPeriod == C20_PerPeriodSum(r.details.holdPeriodDetails, 1)
    IN /\ r.rawHoldDays <= perPeriod
       /\ r.holdDays <= perPeriod

\* two overlapping hold periods: the per-period sum exceeds both the merged
\* total and the clamped total
C20_Witness ==
  /\ result # NoResult
  /\ Len(result[1].details.holdPeriodDetails) = 2
  /\ result[1].rawHoldDays < C20_PerPeriodSum(result[1].details.holdPeriodDetails, 1)
  /\ result[1].holdDays < result[1].rawHoldDays

\* C21: clampIntervalToRange returns exactly the intersection of the
\* interval with the range: null exactly when the two share no day, otherwise
\* [max(starts), min(ends)] with start <= end inside the range; an interval
\* inside the range is returned unchanged, and clamping the returned interval
\* again returns it again
C21_ClampIsIntersection ==
  [][/\ (CallClampIntervalToRange \/ CallClampOnResult) =>
          LET hold == clampArgs'.holdStart..clampArgs'.holdEnd
              main == clampArgs'.mainStart..clampArgs'.mainEnd
              clamped == clampReturn'[1]
          IN /\ (clamped = <<>>) <=> (hold \cap main = {})
             /\ clamped # <<>> =>
                  /\ clamped[1].start..clamped[1].end = hold \cap main
                  /\ clamped[1].start = Max(clampArgs'.holdStart, clampArgs'.mainStart)
                  /\ clamped[1].end = Min(clampArgs'.holdEnd, clampArgs'.mainEnd)
                  /\ clamped[1].start <= clamped[1].end
                  /\ clampArgs'.mainStart <= clamped[1].start
                  /\ clamped[1].end <= clampArgs'.mainEnd
             /\ hold \subseteq main =>
                  clamped = <<[start |-> clampArgs'.holdStart, end |-> clampArgs'.holdEnd]>>
     /\ CallClampOnResult => clampReturn' = clampReturn]_vars

\* an interval reaching beyond the range on both sides has been clamped
C21_Witness ==
  /\ clampReturn # NoCall
  /\ clampReturn[1] # <<>>
  /\ clampArgs.holdStart < clampReturn[1][1].start
  /\ clampReturn[1][1].end < clampArgs.holdEnd

\* the hold period has both bounds set and shares a day with [Day 0, decisionDate]
InBreakdown(p) ==
  BothSet(p) /\ (p.start..p.end) \cap (Day0OfForm..endDate) # {}

\* C22: the breakdown has exactly one entry for each hold period that has
\* both bounds set and intersects [Day 0, decisionDate], and none for the
\* others; the days of an entry are the working days of the hold period
\* within [Day 0, decisionDate], both ends and Day 0 included
C22_PerHoldBreakdown ==
  AdjustedResult =>
    LET kept == SelectSeq(holdPeriods, InBreakdown)
        details == result[1].details.holdPeriodDetails
    IN /\ Len(details) = Len(kept)
       /\ \A i \in 1..Len(kept) :
            /\ details[i].type = kept[i].type
            /\ details[i].days =
                 Cardinality({date \in (kept[i].start..kept[i].end) \cap (Day0OfForm..endDate) :
                                WorkingDate(date)})

\* lodged on a non-working day, with one hold period wholly before Day 0
\* (no entry) and one starting on Day 0 (Day 0 counted)
C22_Witness ==
  /\ AdjustedResult
  /\ Len(holdPeriods) = 2
  /\ startDate < Day0OfForm
  /\ BothSet(holdPeriods[1]) /\ holdPeriods[1].end < Day0OfForm
  /\ holdPeriods[2].start = Day0OfForm /\ holdPeriods[2].end = Day0OfForm
  /\ Len(result[1].details.holdPeriodDetails) = 1
  /\ result[1].details.holdPeriodDetails[1].days = 1

\* C23: calculateWorkingDays on a one-day interval [d, d] returns 0 in all
\* three counters when skipStartDay is true, and 1 in exactly one counter and
\* 0 in the others when it is false; for start <= end the three counters
\* sum to the number of calendar days of [start, end], less one when
\* skipStartDay is true
C23_CountersOfInterval ==
  (countReturn # NoCall /\ countArgs.start <= countArgs.end) =>
    LET counters == countReturn[1]
        triple == <<counters.workingDays, counters.weekends, counters.holidays>>
    IN /\ \A k \in 1..3 : triple[k] >= 0
       /\ triple[1] + triple[2] + triple[3] =
            (countArgs.end - countArgs.start + 1) - (IF countArgs.skipStartDay THEN 1 ELSE 0)
       /\ countArgs.start = countArgs.end =>
            IF countArgs.skipStartDay
            THEN triple = <<0, 0, 0>>
            ELSE triple \in {<<1, 0, 0>>, <<0, 1, 0>>, <<0, 0, 1>>}

\* a listed weekday counted on its own: one non-weekend holiday
C23_Witness ==
  /\ countReturn # NoCall
  /\ countArgs.start = countArgs.end
  /\ ~countArgs.skipStartDay
  /\ countArgs.start \in nonWorkingDays
  /\ countReturn[1] = [workingDays |-> 0, weekends |-> 0, holidays |-> 1]

\* C24: the calendar statistics are those of [Day 0 + 1, decisionDate], the
\* range of the elapsed count: totalCalendarDays is its number of days,
\* weekendDays and holidayDays its weekend days and its listed weekdays, equal
\* to details.weekends and details.holidays, so that totalCalendarDays =
\* totalDays + weekendDays + holidayDays; all three are zero when
\* decisionDate < Day 0 + 1
C24_CalendarStats ==
  AdjustedResult =>
    LET r == result[1]
        stats == r.calendarStats
        range == (Day0OfForm + 1)..endDate
    IN /\ stats.totalCalendarDays = Cardinality(range)
       /\ stats.weekendDays = Cardinality({date \in range : GetDay(date) \in {0, 6}})
       /\ stats.holidayDays =
            Cardinality({date \in range : GetDay(date) \notin {0, 6} /\ date \in nonWorkingDays})
       /\ stats.weekendDays = r.details.weekends
       /\ stats.holidayDays = r.details.holidays
       /\ stats.totalCalendarDays = r.totalDays + stats.weekendDays + stats.holidayDays
       /\ endDate < Day0OfForm + 1 =>
            stats = [totalCalendarDays |-> 0, weekendDays |-> 0, holidayDays |-> 0]

\* lodged Monday 8 January 2024 with Tuesday 9 listed, decided Monday 15:
\* seven calendar days, two weekend days, one holiday, four working days
C24_Witness ==
  /\ AdjustedResult
  /\ startDate = NewDate(2024, 1, 8)
  /\ endDate = NewDate(2024, 1, 15)
  /\ result[1].calendarStats =
       [totalCalendarDays |-> 7, weekendDays |-> 2, holidayDays |-> 1]
  /\ result[1].totalDays = 4

\* C25: the clamping flag is set only when capping occurred: in every
\* result wasExcludedDaysClamped implies rawHoldDays > holdDays, and the flag
\* is not set when rawHoldDays <= totalDays
C25_FlagOnlyWhenCapped ==
  result # NoResult =>
    LET r == result[1] IN
    /\ r.wasExcludedDaysClamped => r.rawHoldDays > r.holdDays
    /\ r.rawHoldDays <= r.totalDays => ~r.wasExcludedDaysClamped

\* the flag set with the raw hold total one above the clamped one, the
\* summary of excluded days capped at the calendar days as well
C25_Witness ==
  /\ result # NoResult
  /\ result[1].wasExcludedDaysClamped
  /\ result[1].rawHoldDays = result[1].holdDays + 1
  /\ result[1].calendarStats.totalCalendarDays > 0
  /\ result[1].excludedDaysSummary = result[1].calendarStats.totalCalendarDays

\* C26: in every result, the short-circuit result included, the summary of
\* excluded days is details.weekends + details.holidays + holdDays, so that
\* finalDays + excludedDaysSummary = totalCalendarDays and
\* excludedDaysSummary <= totalCalendarDays
C26_SummaryConsistent ==
  result # NoResult =>
    LET r == result[1] IN
    /\ r.excludedDaysSummary = r.details.weekends + r.details.holidays + r.holdDays
    /\ r.finalDays + r.excludedDaysSummary = r.calendarStats.totalCalendarDays
    /\ r.excludedDaysSummary <= r.calendarStats.totalCalendarDays

\* a result with weekend days, a listed weekday, hold days and net days left
C26_Witness ==
  /\ result # NoResult
  /\ result[1].details.weekends > 0
  /\ result[1].details.holidays > 0
  /\ result[1].holdDays > 0
  /\ result[1].finalDays > 0
  /\ result[1].excludedDaysSummary =
       result[1].details.weekends + result[1].details.holidays + result[1].holdDays

\* C27: the Day 0 loop always terminates, and while it runs and when it has
\* ended the date it has reached lies between the trigger and the decision
\* date: Day 0 satisfies trigger <= Day 0 <= decisionDate
C27_Day0LoopTerminates ==
  /\ [](loopState # "idle" => (startDate <= loopDate /\ loopDate <= endDate))
  /\ (loopState = "running") ~> (loopState = "done")

\* lodged on a Sunday with the Monday and Tuesday listed: the loop ended on
\* the decision date, three days on
C27_Witness ==
  /\ loopState = "done"
  /\ loopDate = startDate + 3
  /\ loopDate = endDate

\* C28: when Calculate is pressed again after valid hold periods have been
\* added to a valid form, nothing else having changed, totalDays and maxDays
\* are as in the result before, holdDays is not lower, finalDays is not
\* higher, and isOvertime has not turned from false to true
C28_MonotoneInHolds ==
  [][(/\ CalculateResult
      /\ result # NoResult
      /\ validationError = NoError
      /\ validationError' = NoError) =>
       LET before == result[1]
           after == result'[1]
       IN /\ after.totalDays = before.totalDays
          /\ after.maxDays = before.maxDays
          /\ after.holdDays >= before.holdDays
          /\ after.finalDays <= before.finalDays
          /\ after.isOvertime => before.isOvertime]_vars

\* two hold periods in the breakdown, the later one entered first, that
\* brought an application over its limit back within it
C28_Witness ==
  /\ validationError = NoError
  /\ result # NoResult
  /\ Len(result[1].details.holdPeriodDetails) = 2
  /\ holdPeriods[2].start < holdPeriods[1].start
  /\ result[1].totalDays > result[1].maxDays
  /\ ~result[1].isOvertime

\* C29: Clear empties both dates, the hold periods, the extensions, the
\* result, the validation error and the Day 0 note, sets the application
\* type to standard, and leaves the loaded set as it was, so that every date
\* is classified after Clear as it was before
C29_ClearResetsForm ==
  [][HandleClear =>
       /\ startDate' = NoDate
       /\ endDate' = NoDate
       /\ holdPeriods' = <<>>
       /\ extensions' = <<>>
       /\ result' = NoResult
       /\ validationError' = NoError
       /\ nonWorkingDayNote' = NoNote
       /\ applicationType' = "standard"
       /\ nonWorkingDays' = nonWorkingDays
       /\ \A date \in Days : IsWorkingDay(date)' = IsWorkingDay(date)]_vars

\* a cleared form, as Clear leaves it, beside a loaded set that lists a date
C29_Witness ==
  /\ loadState = "loaded"
  /\ nonWorkingDays # {}
  /\ startDate = NoDate
  /\ endDate = NoDate
  /\ holdPeriods = <<>>
  /\ extensions = <<>>
  /\ result = NoResult
  /\ validationError = NoError
  /\ nonWorkingDayNote = NoNote
  /\ applicationType = "standard"

\* C30: every entry of the breakdown carries the type of its own hold
\* period, that hold period's start and end clamped to [Day 0, decisionDate]
\* and the working days between them; the entries are in the order in which
\* the hold periods were entered, whatever the merge did to the intervals
C30_BreakdownUndisturbed ==
  AdjustedResult =>
    LET kept == SelectSeq(holdPeriods, InBreakdown)
        details == result[1].details.holdPeriodDetails
    IN /\ Len(details) = Len(kept)
       /\ \A i \in 1..Len(kept) :
            LET from == Max(kept[i].start, Day0OfForm)
                to == Min(kept[i].end, endDate)
            IN /\ details[i].type = kept[i].type
               /\ details[i].start = ToISOString(from)
               /\ details[i].end = ToISOString(to)
               /\ details[i].days = Cardinality({date \in from..to : WorkingDate(date)})

\* two overlapping hold periods, the later one entered first: the merge
\* sorts the intervals and extends the end of the earlier one
C30_Witness ==
  /\ AdjustedResult
  /\ Len(holdPeriods) = 2
  /\ Len(result[1].details.holdPeriodDetails) = 2
  /\ holdPeriods[2].start < holdPeriods[1].start
  /\ holdPeriods[1].start <= holdPeriods[2].end
  /\ holdPeriods[2].end < holdPeriods[1].end
  /\ result[1].holdDays < result[1].details.holdPeriodDetails[1].days
                            + result[1].details.holdPeriodDetails[2].days

====
